---- MODULE Spec2Model ----
(***************************************************************************)
(* The components of the application as state machines. The largest part   *)
(* is the live-chat session controller of src/components/LiveChat.tsx: the *)
(* React state and refs of the LiveChat component, the resources it        *)
(* acquires (microphone streams, audio contexts, sampler nodes, duplex     *)
(* connections), and one action per handler or callback. Handlers are      *)
(* written as operators from state record to state record, so that a       *)
(* handler calling stopSession is the composition of the two. The          *)
(* TextToSpeech, VideoGenerator and ImageGenerator components follow, each *)
(* with its state in one record and a specification of its own.            *)
(***************************************************************************)
EXTENDS Integers, Sequences, FiniteSets, TLC

\* ------------------------------------------------------------------ bounds
\* Number of startSession calls explored in the lifecycle specification.
MaxStarts == 3
\* Number of startSession calls explored in the playback specification.
MaxAudioStarts == 1
\* Number of server messages delivered in one behaviour.
MaxMsgs == 2
\* Number of microphone chunks captured in one behaviour.
MaxFrames == 2
\* Last value of an output audio context's clock.
MaxTime == 3
\* Resolution of the samples: a sample times the factor of LiveChat.tsx:17 is
\* a whole number of steps of 1 / StepsPerUnit.
StepsPerUnit == 4
\* Samples explored in the encoder specification: those within EdgeWidth
\* steps of -1, of 0 and of 1.
EdgeWidth == 40
\* Number of startSession calls explored in the transcript specification.
MaxTranscriptStarts == 2
\* Number of server messages delivered in the transcript specification.
MaxTranscriptMsgs == 3
\* Resolution of the samples of a synthesized buffer: a sample times 32768 is
\* a whole number of steps of 1 / WaveSteps.
WaveSteps == 2
\* Number of files in a selection of the video batch.
MaxFiles == 2
\* Number of file selections made in one behaviour.
MaxSelections == 2
\* Number of video batches started in one behaviour.
MaxRuns == 2
\* Number of polls after which a video operation is done.
MaxPolls == 1
\* Number of lines the image prompt is edited to.
MaxLines == 2
\* Number of clicks on the Generate button of the image generator.
MaxImageRuns == 2
\* Number of clicks on the mode buttons of the image generator.
MaxModeChanges == 2

VARIABLES
    \* React state of the component (LiveChat.tsx:27-30) and whether it is mounted
    mounted, isConnecting, isSessionActive, error, transcriptionHistory,
    \* refs (LiveChat.tsx:32-42); 0 stands for null, k > 0 for the object made by
    \* the k-th startSession call
    sessionPromiseRef, inputAudioContextRef, outputAudioContextRef,
    scriptProcessorRef, mediaStreamSourceRef, streamRef,
    currentInputTranscriptionRef, currentOutputTranscriptionRef,
    nextStartTimeRef, audioSourcesRef,
    \* the startSession calls and the objects they made
    starts, call, stream, inCtx, outCtx, currentTime, sampler, micSource,
    conn, promise, thens,
    \* inbound messages: how many arrived, the onmessage calls suspended at the
    \* decode, the buffer sources created so far
    arrived, handlers, sources,
    \* outbound frames: how many chunks were captured, the sends made
    frames, sends,
    \* history: release calls per object, the arrival index of the last
    \* interruption handled, the order in which messages took effect, the
    \* partial texts each connection delivered since its last turn-complete
    released, flushedMsg, effectLog, heard,
    \* the TextToSpeech component (unnamed/part_000): its React state, the
    \* position of its handleGenerate call and the audio in flight
    tts,
    \* the VideoGenerator component (components/VideoGenerator.tsx)
    video,
    \* the ImageGenerator component (components/ImageGenerator.tsx)
    image

vars == << mounted, isConnecting, isSessionActive, error, transcriptionHistory,
           sessionPromiseRef, inputAudioContextRef, outputAudioContextRef,
           scriptProcessorRef, mediaStreamSourceRef, streamRef,
           currentInputTranscriptionRef, currentOutputTranscriptionRef,
           nextStartTimeRef, audioSourcesRef,
           starts, call, stream, inCtx, outCtx, currentTime, sampler, micSource,
           conn, promise, thens, arrived, handlers, sources, frames, sends,
           released, flushedMsg, effectLog, heard,
           tts,
           video,
           image >>

\* The state as one record, the argument and result of every handler.
State ==
    [ mounted |-> mounted, isConnecting |-> isConnecting,
      isSessionActive |-> isSessionActive, error |-> error,
      transcriptionHistory |-> transcriptionHistory,
      sessionPromiseRef |-> sessionPromiseRef,
      inputAudioContextRef |-> inputAudioContextRef,
      outputAudioContextRef |-> outputAudioContextRef,
      scriptProcessorRef |-> scriptProcessorRef,
      mediaStreamSourceRef |-> mediaStreamSourceRef,
      streamRef |-> streamRef,
      currentInputTranscriptionRef |-> currentInputTranscriptionRef,
      currentOutputTranscriptionRef |-> currentOutputTranscriptionRef,
      nextStartTimeRef |-> nextStartTimeRef,
      audioSourcesRef |-> audioSourcesRef,
      starts |-> starts, call |-> call, stream |-> stream, inCtx |-> inCtx,
      outCtx |-> outCtx, currentTime |-> currentTime, sampler |-> sampler,
      micSource |-> micSource, conn |-> conn, promise |-> promise,
      thens |-> thens, arrived |-> arrived, handlers |-> handlers,
      sources |-> sources, frames |-> frames, sends |-> sends,
      released |-> released,
      flushedMsg |-> flushedMsg, effectLog |-> effectLog, heard |-> heard,
      tts |-> tts,
      video |-> video,
      image |-> image ]

\* Apply(F, x) is F(x) with x evaluated once, however often F uses it.
Apply(F(_), x) == CHOOSE r \in {F(v) : v \in {x}} : TRUE

\* The next state is the record T.
Become(T) ==
    \E S \in {T} :
        /\ mounted' = S.mounted
        /\ isConnecting' = S.isConnecting
        /\ isSessionActive' = S.isSessionActive
        /\ error' = S.error
        /\ transcriptionHistory' = S.transcriptionHistory
        /\ sessionPromiseRef' = S.sessionPromiseRef
        /\ inputAudioContextRef' = S.inputAudioContextRef
        /\ outputAudioContextRef' = S.outputAudioContextRef
        /\ scriptProcessorRef' = S.scriptProcessorRef
        /\ mediaStreamSourceRef' = S.mediaStreamSourceRef
        /\ streamRef' = S.streamRef
        /\ currentInputTranscriptionRef' = S.currentInputTranscriptionRef
        /\ currentOutputTranscriptionRef' = S.currentOutputTranscriptionRef
        /\ nextStartTimeRef' = S.nextStartTimeRef
        /\ audioSourcesRef' = S.audioSourcesRef
        /\ starts' = S.starts
        /\ call' = S.call
        /\ stream' = S.stream
        /\ inCtx' = S.inCtx
        /\ outCtx' = S.outCtx
        /\ currentTime' = S.currentTime
        /\ sampler' = S.sampler
        /\ micSource' = S.micSource
        /\ conn' = S.conn
        /\ promise' = S.promise
        /\ thens' = S.thens
        /\ arrived' = S.arrived
        /\ handlers' = S.handlers
        /\ sources' = S.sources
        /\ frames' = S.frames
        /\ sends' = S.sends
        /\ released' = S.released
        /\ flushedMsg' = S.flushedMsg
        /\ effectLog' = S.effectLog
        /\ heard' = S.heard
        /\ tts' = S.tts
        /\ video' = S.video
        /\ image' = S.image

\* Identifiers of startSession calls; the widest bound sizes the functions.
Ids == 1 .. (IF MaxStarts > MaxAudioStarts THEN MaxStarts ELSE MaxAudioStarts)

Max(a, b) == IF a > b THEN a ELSE b
Min(a, b) == IF a < b THEN a ELSE b

NoRelease == [session |-> 0, track |-> 0, sampler |-> 0, source |-> 0,
              inCtx |-> 0, outCtx |-> 0]

NoText == [input |-> << >>, output |-> << >>]

\* The TextToSpeech component after its first render (part_000:8-12): no
\* handleGenerate call is running, nothing was synthesized. audioUrl is << >>
\* for null and <<samples>> for the URL of a wave file of these samples.
NoSpeech == [text |-> "hello", loading |-> FALSE, error |-> "null",
             audioUrl |-> << >>, at |-> "idle", pcm |-> << >>,
             audioBuffer |-> << >>]

\* The VideoGenerator component after its first render (VideoGenerator.tsx:
\* 23-31): no file, no result, no key; no handler is running. An empty
\* progressMessage is << >>, "Generating video i of n..." is <<i, n>>.
NoVideo == [files |-> << >>, results |-> << >>, loading |-> FALSE,
            progressMessage |-> << >>, error |-> "null", hasApiKey |-> FALSE,
            crashed |-> FALSE, previews |-> {}, at |-> "idle",
            items |-> << >>, total |-> 0, index |-> 0, polls |-> 0,
            submitted |-> << >>, selections |-> 0, runs |-> 0]

\* The ImageGenerator component after its first render (ImageGenerator.tsx:
\* 10-18): single mode, a one-line prompt, nothing generated; no handler is
\* running.
NoImage == [mode |-> "single", prompt |-> <<"x">>, loading |-> FALSE,
            error |-> "null", imageUrls |-> << >>, progressMessage |-> << >>,
            at |-> "idle", runMode |-> "single", prompts |-> << >>,
            index |-> 0, allGeneratedUrls |-> << >>, answers |-> << >>,
            clicks |-> 0, modeChanges |-> 0]

Init ==
    /\ mounted = TRUE
    /\ isConnecting = FALSE
    /\ isSessionActive = FALSE
    /\ error = "null"
    /\ transcriptionHistory = << >>
    /\ sessionPromiseRef = 0
    /\ inputAudioContextRef = 0
    /\ outputAudioContextRef = 0
    /\ scriptProcessorRef = 0
    /\ mediaStreamSourceRef = 0
    /\ streamRef = 0
    /\ currentInputTranscriptionRef = << >>
    /\ currentOutputTranscriptionRef = << >>
    /\ nextStartTimeRef = 0
    /\ audioSourcesRef = {}
    /\ starts = 0
    /\ call = [k \in Ids |-> "none"]
    /\ stream = [k \in Ids |-> "none"]
    /\ inCtx = [k \in Ids |-> "none"]
    /\ outCtx = [k \in Ids |-> "none"]
    /\ currentTime = [k \in Ids |-> 0]
    /\ sampler = [k \in Ids |-> [state |-> "none", ctx |-> 0]]
    /\ micSource = [k \in Ids |-> "none"]
    /\ conn = [k \in Ids |-> "none"]
    /\ promise = [k \in Ids |-> "none"]
    /\ thens = [k \in Ids |-> << >>]
    /\ arrived = 0
    /\ handlers = {}
    /\ sources = << >>
    /\ frames = 0
    /\ sends = << >>
    /\ released = [k \in Ids |-> NoRelease]
    /\ flushedMsg = 0
    /\ effectLog = << >>
    /\ heard = [k \in Ids |-> NoText]
    /\ tts = NoSpeech
    /\ video = NoVideo
    /\ image = NoImage

\* ------------------------------------------------------------ createBlob
\* The factor of LiveChat.tsx:17.
Scale == 32768
\* The number of values of an element of an Int16Array (LiveChat.tsx:15).
Int16Values == 65536

\* A sample is a number of steps of 1 / SampleDen; the samples of [-1, 1] are
\* -SampleDen .. SampleDen, and the sample n times Scale is n / StepsPerUnit.
SampleDen == StepsPerUnit * Scale

\* The integer part of n / d, as the conversion of a Number to an integer
\* takes it (towards zero).
Trunc(n, d) == IF n >= 0 \/ n % d = 0 THEN n \div d ELSE n \div d + 1

\* The store of the integer x into an Int16Array element: x modulo 2^16,
\* taken in -2^15 .. 2^15 - 1.
ToInt16(x) == ((x + Int16Values \div 2) % Int16Values) - Int16Values \div 2

\* LiveChat.tsx:13-24. The blob keeps the 16-bit values; their packing into
\* bytes and base64 text (encode of utils/audioUtils) is not part of it.
createBlob(data) ==
    [data |-> [i \in DOMAIN data |-> ToInt16(Trunc(data[i], StepsPerUnit))],
     mimeType |-> "audio/pcm;rate=16000"]

\* ------------------------------------------------- the connection's session
\* session.close(): the client closes connection j.
sessionClose(S, j) ==
    [S EXCEPT !.conn[j] = IF @ = "open" THEN "closing" ELSE @,
              !.released[j].session = @ + 1]

\* session.sendRealtimeInput({media}): the blob of chunk c is handed to
\* connection j; the record keeps, as history, the chunk, the state the
\* connection was in and whether stopSession had already released the
\* session of this connection.
sendRealtimeInput(S, j, c) ==
    [S EXCEPT !.sends = Append(@, [conn |-> j, sampler |-> c.sampler,
                                   frame |-> c.frame,
                                   inputData |-> c.inputData, media |-> c.media,
                                   state |-> S.conn[j],
                                   afterStop |-> S.sessionPromiseRef # j
                                                 /\ S.stream[j] = "stopped"])]

\* The callbacks the component registers on the connection promise.
runThen(S, j, cb) ==
    IF cb[1] = "close" THEN sessionClose(S, j) ELSE sendRealtimeInput(S, j, cb[2])

\* promise.then(cb) on the promise of connection j: cb runs at once (as a
\* microtask) when the promise is resolved, waits while it is pending, and
\* never runs when it is rejected.
promiseThen(S, j, cb) ==
    IF S.promise[j] = "resolved" THEN runThen(S, j, cb)
    ELSE IF S.promise[j] = "pending" THEN [S EXCEPT !.thens[j] = Append(@, cb)]
    ELSE S

\* The callbacks cbs run in the order of their registration.
RECURSIVE runThens(_, _, _)
runThens(S, j, cbs) ==
    IF cbs = << >> THEN S
    ELSE Apply(LAMBDA v : runThens(v, j, Tail(cbs)), runThen(S, j, Head(cbs)))

\* ------------------------------------------------------ playback sources
\* source.stop() at clock value t: a source that has not begun never plays, one
\* that is playing is cut at t.
sourceStop(src, t) ==
    [src EXCEPT !.state = "stopped",
                !.playEnd = Max(src.playStart, Min(src.playEnd, t))]

\* flushSources without the reset of the cursor.
flushSourcesKeepsCursor(S) ==
    [S EXCEPT !.sources = [i \in DOMAIN S.sources |->
                             IF i \in S.audioSourcesRef
                             THEN sourceStop(S.sources[i], S.currentTime[S.sources[i].ctx])
                             ELSE S.sources[i]],
              !.audioSourcesRef = {}]

\* audioSourcesRef.current.forEach(s => s.stop()); clear(); nextStartTimeRef = 0
\* (LiveChat.tsx:72-74 and 140-142)
flushSources(S) ==
    [S EXCEPT !.sources = [i \in DOMAIN S.sources |->
                             IF i \in S.audioSourcesRef
                             THEN sourceStop(S.sources[i], S.currentTime[S.sources[i].ctx])
                             ELSE S.sources[i]],
              !.audioSourcesRef = {},
              !.nextStartTimeRef = 0]

\* ----------------------------------------------------------- stopSession
\* LiveChat.tsx:45-48
closeSession(S) ==
    IF S.sessionPromiseRef # 0
    THEN [promiseThen(S, S.sessionPromiseRef, <<"close">>)
              EXCEPT !.sessionPromiseRef = 0]
    ELSE S

\* LiveChat.tsx:50-53
stopTracks(S) ==
    IF S.streamRef # 0
    THEN [S EXCEPT !.stream[S.streamRef] = "stopped",
                   !.released[S.streamRef].track = @ + 1,
                   !.streamRef = 0]
    ELSE S

\* LiveChat.tsx:55-58
disconnectProcessor(S) ==
    IF S.scriptProcessorRef # 0
    THEN [S EXCEPT !.sampler[S.scriptProcessorRef].state = "disconnected",
                   !.released[S.scriptProcessorRef].sampler = @ + 1,
                   !.scriptProcessorRef = 0]
    ELSE S

\* LiveChat.tsx:60-63
disconnectSource(S) ==
    IF S.mediaStreamSourceRef # 0
    THEN [S EXCEPT !.micSource[S.mediaStreamSourceRef] = "disconnected",
                   !.released[S.mediaStreamSourceRef].source = @ + 1,
                   !.mediaStreamSourceRef = 0]
    ELSE S

\* LiveChat.tsx:65-67
closeInputContext(S) ==
    IF S.inputAudioContextRef # 0 /\ S.inCtx[S.inputAudioContextRef] # "closed"
    THEN [S EXCEPT !.inCtx[S.inputAudioContextRef] = "closed",
                   !.released[S.inputAudioContextRef].inCtx = @ + 1]
    ELSE S

\* closeOutputContext without the close: the playback context is left open.
leaveOutputContext(S) == S

\* LiveChat.tsx:68-70
closeOutputContext(S) ==
    IF S.outputAudioContextRef # 0 /\ S.outCtx[S.outputAudioContextRef] # "closed"
    THEN [S EXCEPT !.outCtx[S.outputAudioContextRef] = "closed",
                   !.released[S.outputAudioContextRef].outCtx = @ + 1]
    ELSE S

\* LiveChat.tsx:76-77. The history notes the run: every onmessage call
\* suspended at its decode has now seen a teardown.
clearFlags(S) ==
    [S EXCEPT !.isSessionActive = FALSE,
              !.isConnecting = FALSE,
              !.handlers = {[h EXCEPT !.closed = TRUE] : h \in S.handlers}]

\* LiveChat.tsx:44-78, the steps in the order of the source (innermost first).
stopSession(S) ==
    Apply(clearFlags,
    Apply(flushSources,
    Apply(closeOutputContext,
    Apply(closeInputContext,
    Apply(disconnectSource,
    Apply(disconnectProcessor,
    Apply(stopTracks,
    Apply(closeSession, S))))))))

\* ---------------------------------------------------------- startSession
\* LiveChat.tsx:87-93: up to the await of getUserMedia; the call is number k.
startSession(S) ==
    [S EXCEPT !.error = "null",
              !.isConnecting = TRUE,
              !.transcriptionHistory = << >>,
              !.starts = S.starts + 1,
              !.call[S.starts + 1] = "getUserMedia"]

\* LiveChat.tsx:181-184: the catch block of call k.
startSessionCatch(S, k) ==
    [S EXCEPT !.error = "Failed to start session",
              !.isConnecting = FALSE,
              !.call[k] = "failed"]

\* What can happen after getUserMedia resolves: each constructor of lines
\* 95-98 may throw, or connect returns its promise.
StartOutcomes == {"inputContextThrows", "outputContextThrows", "connectThrows", "connected"}

\* LiveChat.tsx:93-100: call k resumes with the granted stream.
startSessionResume(S, k, outcome) ==
    LET S1 == [S EXCEPT !.streamRef = k, !.stream[k] = "live"]
        S2 == [S EXCEPT !.streamRef = k, !.stream[k] = "live",
                        !.inputAudioContextRef = k, !.inCtx[k] = "running"]
        S3 == [S EXCEPT !.streamRef = k, !.stream[k] = "live",
                        !.inputAudioContextRef = k, !.inCtx[k] = "running",
                        !.outputAudioContextRef = k, !.outCtx[k] = "running"]
    IN  CASE outcome = "inputContextThrows"  -> startSessionCatch(S1, k)
          [] outcome = "outputContextThrows" -> startSessionCatch(S2, k)
          [] outcome = "connectThrows"       -> startSessionCatch(S3, k)
          [] OTHER -> [S3 EXCEPT !.sessionPromiseRef = k,
                                 !.conn[k] = "connecting",
                                 !.promise[k] = "pending",
                                 !.call[k] = "returned"]

\* ---------------------------------------------------------------- onopen
\* LiveChat.tsx:103-124, the open callback of connection k.
onopen(S, k) ==
    IF S.streamRef = 0 \/ S.inputAudioContextRef = 0
    THEN [S EXCEPT !.isConnecting = FALSE, !.isSessionActive = TRUE]
    ELSE [S EXCEPT !.isConnecting = FALSE, !.isSessionActive = TRUE,
                   !.mediaStreamSourceRef = k,
                   !.micSource[k] = "connected",
                   !.scriptProcessorRef = k,
                   !.sampler[k] = [state |-> "connected",
                                   ctx |-> S.inputAudioContextRef]]

\* LiveChat.tsx:112-121, onaudioprocess of the sampler of session k: chunk
\* number f with the samples inputData is encoded and its send is registered
\* on whatever promise the ref holds now.
onaudioprocess(S, k, f, inputData) ==
    IF S.sessionPromiseRef # 0
    THEN [promiseThen(S, S.sessionPromiseRef,
                      <<"send", [sampler |-> k, frame |-> f,
                                 inputData |-> inputData,
                                 media |-> createBlob(inputData)]>>)
              EXCEPT !.frames = f]
    ELSE [S EXCEPT !.frames = f]

\* LiveChat.tsx:166-169
onerror(S) == stopSession([S EXCEPT !.error = "Session error"])

\* LiveChat.tsx:170-172
onclose(S) == stopSession(S)

\* ------------------------------------------------------------- onmessage
\* A server message: audio is "none", "ok" (decodes to dur clock units) or
\* "bad" (malformed payload); a transcription is << >> when absent and
\* <<text>> when present; a text is a sequence of characters.
Msg(audio, dur, interrupted, inputText, outputText, turnComplete) ==
    [audio |-> audio, dur |-> dur, interrupted |-> interrupted,
     inputTranscription |-> inputText, outputTranscription |-> outputText,
     turnComplete |-> turnComplete]

ServerMessages ==
    { Msg("ok", 1, FALSE, << >>, << >>, FALSE),
      Msg("ok", 2, FALSE, << >>, << >>, FALSE),
      Msg("bad", 0, FALSE, << >>, << >>, FALSE),
      Msg("none", 0, TRUE, << >>, << >>, FALSE),
      Msg("none", 0, FALSE, << <<"h">> >>, << >>, FALSE),
      Msg("none", 0, FALSE, << <<" ">> >>, << >>, FALSE),
      Msg("none", 0, FALSE, << >>, << <<"o">> >>, FALSE),
      Msg("none", 0, FALSE, << >>, << >>, TRUE),
      Msg("ok", 1, TRUE, << >>, << <<"o">> >>, TRUE),
      Msg("bad", 0, TRUE, << <<"h">> >>, << >>, TRUE) }

\* decodeAudioData(decode(data), ctx, 24000, 1) of utils/audioUtils: a buffer
\* of the payload's duration, or a DecodeError for a malformed payload. The
\* call is asynchronous: it settles in a later step (DecodeSettled).
decodeAudioData(m) ==
    [error |-> IF m.audio = "bad" THEN "DecodeError" ELSE "none",
     duration |-> m.dur]

\* text.trim() is non-empty
trimmed(text) == \E i \in DOMAIN text : text[i] # " "

\* LiveChat.tsx:139-143, the interrupted branch of message number idx.
interrupted(S, m, idx) ==
    IF m.interrupted
    THEN [flushSources(S) EXCEPT !.flushedMsg = Max(@, idx)]
    ELSE S

\* LiveChat.tsx:145-150, the two transcription branches.
transcriptions(S, m) ==
    [S EXCEPT !.currentOutputTranscriptionRef =
                  IF m.outputTranscription # << >>
                  THEN @ \o m.outputTranscription[1] ELSE @,
              !.currentInputTranscriptionRef =
                  IF m.inputTranscription # << >>
                  THEN @ \o m.inputTranscription[1] ELSE @]

\* newHistory with the two pushes exchanged: the model's entry comes first.
newHistoryModelFirst(prev, fullInput, fullOutput) ==
    prev
    \o (IF trimmed(fullOutput) THEN <<[speaker |-> "model", text |-> fullOutput]>> ELSE << >>)
    \o (IF trimmed(fullInput) THEN <<[speaker |-> "user", text |-> fullInput]>> ELSE << >>)

\* LiveChat.tsx:155-160, the updater of setTranscriptionHistory.
newHistory(prev, fullInput, fullOutput) ==
    prev
    \o (IF trimmed(fullInput) THEN <<[speaker |-> "user", text |-> fullInput]>> ELSE << >>)
    \o (IF trimmed(fullOutput) THEN <<[speaker |-> "model", text |-> fullOutput]>> ELSE << >>)

\* turnComplete without line 162: the input buffer is not cleared.
turnCompleteKeepsInput(S, m) ==
    IF m.turnComplete
    THEN [S EXCEPT !.transcriptionHistory =
                       newHistory(@, S.currentInputTranscriptionRef,
                                  S.currentOutputTranscriptionRef),
                   !.currentOutputTranscriptionRef = << >>]
    ELSE S

\* LiveChat.tsx:151-164, the turnComplete branch.
turnComplete(S, m) ==
    IF m.turnComplete
    THEN [S EXCEPT !.transcriptionHistory =
                       newHistory(@, S.currentInputTranscriptionRef,
                                  S.currentOutputTranscriptionRef),
                   !.currentInputTranscriptionRef = << >>,
                   !.currentOutputTranscriptionRef = << >>]
    ELSE S

\* The message that arrived as number idx has taken effect.
logEffect(S, idx) == [S EXCEPT !.effectLog = Append(@, idx)]

\* LiveChat.tsx:139-164: what onmessage does after the audio branch, for the
\* message that arrived as number idx.
onmessageRest(S, m, idx) ==
    Apply(LAMBDA v : logEffect(v, idx),
    Apply(LAMBDA v : turnComplete(v, m),
    Apply(LAMBDA v : transcriptions(v, m),
    Apply(LAMBDA v : interrupted(v, m, idx), S))))

\* The history of connection k after message m arrived: the partial texts of
\* each channel in the order of their arrival.
hear(S, k, m) ==
    [S EXCEPT !.heard[k] =
        [input |-> @.input \o (IF m.inputTranscription # << >>
                                THEN m.inputTranscription[1] ELSE << >>),
         output |-> @.output \o (IF m.outputTranscription # << >>
                                  THEN m.outputTranscription[1] ELSE << >>)]]

\* The history of connection k starts anew after a turn-complete message.
newTurn(S, k, m) ==
    IF m.turnComplete THEN [S EXCEPT !.heard[k] = NoText] ELSE S

\* onmessage with the cursor set to the clock instead of the maximum of the two.
onmessageCursorToClock(S, k, m) ==
    IF m.audio # "none" /\ S.outputAudioContextRef # 0
    THEN [newTurn(S, k, m)
              EXCEPT !.arrived = S.arrived + 1,
                     !.nextStartTimeRef = S.currentTime[S.outputAudioContextRef],
                     !.handlers = @ \cup {[idx |-> S.arrived + 1, msg |-> m,
                                           closed |-> FALSE,
                                           heard |-> S.heard[k]]}]
    ELSE onmessageRest([newTurn(S, k, m) EXCEPT !.arrived = S.arrived + 1],
                       m, S.arrived + 1)

\* LiveChat.tsx:125-129: the message callback of connection k up to the await
\* of the decode, or to its end for a message without audio. The suspended
\* call keeps, as history, the texts that had arrived when it began.
onmessage(S, k, m) ==
    IF m.audio # "none" /\ S.outputAudioContextRef # 0
    THEN [newTurn(S, k, m)
              EXCEPT !.arrived = S.arrived + 1,
                     !.nextStartTimeRef =
                         Max(@, S.currentTime[S.outputAudioContextRef]),
                     !.handlers = @ \cup {[idx |-> S.arrived + 1, msg |-> m,
                                           closed |-> FALSE,
                                           heard |-> S.heard[k]]}]
    ELSE onmessageRest([newTurn(S, k, m) EXCEPT !.arrived = S.arrived + 1],
                       m, S.arrived + 1)

\* source.start(when) on context ctx: a start time in the past plays at once.
bufferSource(S, h, ctx, dur) ==
    [msg |-> h.idx, ctx |-> ctx, when |-> S.nextStartTimeRef, dur |-> dur,
     playStart |-> Max(S.nextStartTimeRef, S.currentTime[ctx]),
     playEnd |-> Max(S.nextStartTimeRef, S.currentTime[ctx]) + dur,
     state |-> "started", onClosed |-> S.outCtx[ctx] = "closed",
     afterClose |-> h.closed]

\* LiveChat.tsx:130-136: the decoded buffer of the suspended call h is started
\* at the cursor and the cursor is advanced.
schedule(S, h, audioBuffer) ==
    [S EXCEPT !.handlers = @ \ {h},
              !.sources = Append(@, bufferSource(S, h, S.outputAudioContextRef,
                                                 audioBuffer)),
              !.nextStartTimeRef = @ + audioBuffer,
              !.audioSourcesRef = @ \cup {Len(S.sources) + 1}]

\* onmessageResume with a failed decode treated as a session error: the
\* session is torn down.
onmessageResumeStopsOnError(S, h) ==
    IF decodeAudioData(h.msg).error # "none"
    THEN stopSession([S EXCEPT !.handlers = @ \ {h}, !.error = "Session error"])
    ELSE onmessageRest(schedule(S, h, decodeAudioData(h.msg).duration), h.msg, h.idx)

\* LiveChat.tsx:129-165: the suspended call h resumes when its decode settles;
\* a rejected decode ends the call there (nothing catches it).
onmessageResume(S, h) ==
    IF decodeAudioData(h.msg).error # "none"
    THEN [S EXCEPT !.handlers = @ \ {h}]
    ELSE onmessageRest(schedule(S, h, decodeAudioData(h.msg).duration), h.msg, h.idx)

\* onended without the delete: the source stays in the set.
onendedKeepsSource(S, i) ==
    [S EXCEPT !.sources[i].state = "ended"]

\* LiveChat.tsx:133: the 'ended' listener of source i.
onended(S, i) ==
    [S EXCEPT !.audioSourcesRef = @ \ {i}, !.sources[i].state = "ended"]

\* --------------------------------------------------------------- actions
Opened(k) == conn[k] \in {"open", "closing", "closed"}

\* The button of LiveChat.tsx:207-209 while it shows Start.
StartClick(limit) ==
    /\ mounted /\ ~isConnecting /\ ~isSessionActive
    /\ starts < limit
    /\ \E S \in {State} : Become(startSession(S))

\* The same button while it shows Stop.
StopClick ==
    /\ mounted /\ ~isConnecting /\ isSessionActive
    /\ \E S \in {State} : Become(stopSession(S))

\* LiveChat.tsx:81-85: the effect cleanup.
Unmount ==
    /\ mounted
    /\ \E S \in {[State EXCEPT !.mounted = FALSE]} : Become(stopSession(S))

GetUserMediaDenied ==
    \E k \in Ids, S \in {State} :
        /\ call[k] = "getUserMedia"
        /\ Become(startSessionCatch(S, k))

GetUserMediaGranted ==
    \E k \in Ids, outcome \in StartOutcomes, S \in {State} :
        /\ call[k] = "getUserMedia"
        /\ Become(startSessionResume(S, k, outcome))

\* The transport of connection k opens: the open callback runs.
OnOpen ==
    \E k \in Ids :
        /\ conn[k] = "connecting"
        /\ \E S \in {[State EXCEPT !.conn[k] = "open"]} : Become(onopen(S, k))

\* The promise of connect k resolves, after the open callback; the callbacks
\* registered on it run in the order of their registration.
ConnectResolved ==
    \E k \in Ids :
        /\ promise[k] = "pending" /\ Opened(k)
        /\ \E S \in {[State EXCEPT !.promise[k] = "resolved", !.thens[k] = << >>]} :
               Become(runThens(S, k, thens[k]))

\* The promise of connect k rejects and no callback is called.
ConnectRejected ==
    \E k \in Ids :
        /\ promise[k] = "pending" /\ conn[k] = "connecting"
        /\ Become([State EXCEPT !.promise[k] = "rejected", !.conn[k] = "failed",
                                !.thens[k] = << >>])

\* A transport error on connection k, before or after it opened.
OnError ==
    \E k \in Ids :
        /\ conn[k] \in {"connecting", "open"}
        /\ \E S \in {[State EXCEPT !.conn[k] =
                         IF @ = "connecting" THEN "refused" ELSE "closing"]} :
               Become(onerror(S))

\* The close event of connection k: the peer closed it, or the close the
\* client or an error began has completed.
OnClose ==
    \E k \in Ids :
        /\ conn[k] \in {"open", "closing", "refused"}
        /\ \E S \in {[State EXCEPT !.conn[k] =
                         IF @ = "refused" THEN "failed" ELSE "closed"]} :
               Become(onclose(S))

\* The samples of [-1, 1] near the ends of the range and near 0.
Samples ==
    {n \in -SampleDen .. SampleDen :
        \/ n <= EdgeWidth - SampleDen
        \/ n >= SampleDen - EdgeWidth
        \/ (-EdgeWidth <= n /\ n <= EdgeWidth)}

\* The chunks a sampler delivers: one sample each; silence where the samples
\* do not matter.
Chunks == {<<n>> : n \in Samples}
SilentChunks == {<<0>>}

\* The sampler made by the open callback of connection k delivers a chunk.
AudioProcess(chunks) ==
    \E k \in Ids, inputData \in chunks :
        /\ sampler[k].state = "connected"
        /\ inCtx[sampler[k].ctx] = "running"
        /\ frames < MaxFrames
        /\ \E S \in {State} : Become(onaudioprocess(S, k, frames + 1, inputData))

\* Connection k delivers server message m: the message callback runs.
Deliver(k, m, limit) ==
    /\ conn[k] = "open"
    /\ arrived < limit
    /\ \E S \in {hear(State, k, m)} : Become(onmessage(S, k, m))

Message(limit) ==
    \E k \in Ids, m \in ServerMessages : Deliver(k, m, limit)

\* The decode awaited by the suspended call h settles: the call resumes.
Settle(h) ==
    \E S \in {State} : Become(onmessageResume(S, h))

DecodeSettled ==
    \E h \in handlers : Settle(h)

Ended ==
    \E i \in DOMAIN sources :
        /\ sources[i].state = "started"
        /\ outCtx[sources[i].ctx] = "running"
        /\ currentTime[sources[i].ctx] >= sources[i].playEnd
        /\ \E S \in {State} : Become(onended(S, i))

\* The clocks of the running output contexts advance.
Tick ==
    /\ \E k \in Ids : outCtx[k] = "running" /\ currentTime[k] < MaxTime
    /\ Become([State EXCEPT !.currentTime = [k \in Ids |->
                   IF outCtx[k] = "running" /\ currentTime[k] < MaxTime
                   THEN currentTime[k] + 1 ELSE currentTime[k]]])

Lifecycle(limit) ==
    \/ StartClick(limit)
    \/ StopClick
    \/ Unmount
    \/ GetUserMediaDenied
    \/ GetUserMediaGranted
    \/ OnOpen
    \/ ConnectResolved
    \/ ConnectRejected
    \/ OnError
    \/ OnClose
    \/ AudioProcess(SilentChunks)

Next == Lifecycle(MaxStarts)

Spec == Init /\ [][Next]_vars

\* The playback specification: one session, the three triggers that end it,
\* and the inbound path with its clock.
NextAudio ==
    \/ StartClick(MaxAudioStarts)
    \/ GetUserMediaGranted
    \/ OnOpen
    \/ ConnectResolved
    \/ StopClick
    \/ OnError
    \/ OnClose
    \/ Message(MaxMsgs)
    \/ DecodeSettled
    \/ Ended
    \/ Tick

SpecAudio == Init /\ [][NextAudio]_vars

\* The transcript specification: sessions started and stopped by the button,
\* and the inbound path with more messages and without the clock.
NextTranscript ==
    \/ StartClick(MaxTranscriptStarts)
    \/ GetUserMediaGranted
    \/ OnOpen
    \/ ConnectResolved
    \/ StopClick
    \/ Message(MaxTranscriptMsgs)
    \/ DecodeSettled

SpecTranscript == Init /\ [][NextTranscript]_vars

\* The encoder specification: one session whose sampler delivers chunks of
\* any sample of Samples.
NextEncode ==
    \/ StartClick(MaxAudioStarts)
    \/ GetUserMediaGranted
    \/ OnOpen
    \/ ConnectResolved
    \/ AudioProcess(Chunks)

SpecEncode == Init /\ [][NextEncode]_vars

\* ========================================================== TextToSpeech
\* The component of unnamed/part_000. Its state is the record tts; a sample
\* of an AudioBuffer is a whole number of steps of 1 / WaveDen.
WaveDen == WaveSteps * Scale

\* The positive factor of part_000:97.
PositiveScale == 32767

\* The 16-bit values a synthesized response carries, one per response: those
\* within EdgeWidth of -32768, of -16384 (the sample -0.5), of 0 and of 32767.
WavePcm ==
    {v \in -(Int16Values \div 2) .. (Int16Values \div 2 - 1) :
        \/ v <= EdgeWidth - Int16Values \div 2
        \/ v >= -(Int16Values \div 4) - EdgeWidth /\ v <= EdgeWidth - Int16Values \div 4
        \/ v >= -EdgeWidth /\ v <= EdgeWidth
        \/ v >= Int16Values \div 2 - 1 - EdgeWidth}

\* decodeAudioData of utils/audioUtils on 16-bit data: the channel samples
\* v / 32768, in steps of 1 / WaveDen.
decodeChannel(pcm) == [i \in DOMAIN pcm |-> pcm[i] * WaveSteps]

\* part_000:96, the clamp to [-1, 1].
clamp(sample) == Max(-WaveDen, Min(WaveDen, sample))

\* part_000:97. The condition parses as (0.5 + sample) < 0; |0 truncates
\* towards zero and the product is within 32 bits.
scale(c) ==
    IF WaveDen \div 2 + c < 0
    THEN Trunc(c * Scale, WaveDen)
    ELSE Trunc(c * PositiveScale, WaveDen)

\* bufferToWave (part_000:64-104) on a one-channel buffer: the 16-bit samples
\* of the data chunk, in order; the 44 header bytes carry no sample.
bufferToWave(abuffer) ==
    [i \in DOMAIN abuffer |-> ToInt16(scale(clamp(abuffer[i])))]

\* handleGenerate up to its first await (part_000:16-27).
ttsHandleGenerate(T) ==
    IF T.text = ""
    THEN [T EXCEPT !.error = "Please enter some text."]
    ELSE [T EXCEPT !.loading = TRUE, !.error = "null", !.audioUrl = << >>,
                   !.at = "generateContent"]

\* The outcomes of generateContent: it throws, it answers without audio, it
\* answers with one 16-bit sample of audio.
SpeechOutcomes ==
    {[kind |-> "throws", pcm |-> << >>], [kind |-> "empty", pcm |-> << >>]}
        \cup {[kind |-> "audio", pcm |-> <<v>>] : v \in WavePcm}

\* handleGenerate from the answer of generateContent to the decode
\* (part_000:40-45), or to its end (part_000:52-60).
ttsHandleGenerateResume(T, outcome) ==
    IF outcome.kind = "throws"
    THEN [T EXCEPT !.error = "An error occurred", !.loading = FALSE, !.at = "idle"]
    ELSE IF outcome.kind = "empty"
    THEN [T EXCEPT !.error = "Audio generation failed. No audio data was returned.",
                   !.loading = FALSE, !.at = "idle"]
    ELSE [T EXCEPT !.pcm = outcome.pcm, !.at = "decodeAudioData"]

\* handleGenerate from the decoded buffer to its end (part_000:45-60).
ttsHandleGenerateDecoded(T) ==
    [T EXCEPT !.audioBuffer = decodeChannel(T.pcm),
              !.audioUrl = <<bufferToWave(decodeChannel(T.pcm))>>,
              !.loading = FALSE, !.at = "idle"]

\* The textarea (part_000:125-133), disabled while loading.
SetText ==
    /\ ~tts.loading
    /\ \E t \in {"", "hello"} :
        /\ t # tts.text
        /\ Become([State EXCEPT !.tts = [tts EXCEPT !.text = t]])

\* The Generate Speech button (part_000:151-157), disabled while loading.
GenerateSpeech ==
    /\ ~tts.loading
    /\ Become([State EXCEPT !.tts = ttsHandleGenerate(tts)])

SpeechAnswered ==
    /\ tts.at = "generateContent"
    /\ \E outcome \in SpeechOutcomes :
        Become([State EXCEPT !.tts = ttsHandleGenerateResume(tts, outcome)])

SpeechDecoded ==
    /\ tts.at = "decodeAudioData"
    /\ Become([State EXCEPT !.tts = ttsHandleGenerateDecoded(tts)])

\* The wave specification: the TextToSpeech component alone.
NextWave ==
    \/ SetText
    \/ GenerateSpeech
    \/ SpeechAnswered
    \/ SpeechDecoded

SpecWave == Init /\ [][NextWave]_vars

\* ======================================================== VideoGenerator
\* The component of components/VideoGenerator.tsx. Its state is the record
\* video: the React state, the handleFileChange calls suspended at their
\* await (previews), and the handleGenerate call in progress (at, the
\* results and files.length its closure captured, the loop index).
Files == {"a", "b"}

\* What the file input can deliver: the non-empty selections of distinct
\* files, in any order.
Selections ==
    {s \in UNION {[1 .. n -> Files] : n \in 1 .. MaxFiles} :
        \A i, j \in DOMAIN s : s[i] = s[j] => i = j}

\* VideoGenerator.tsx:146, the text the catch block looks for. A message is
\* a sequence of pieces of text; includes looks for one piece.
EntityNotFound == "Requested entity was not found"
includes(message, piece) == \E i \in DOMAIN message : message[i] = piece

\* The messages of the errors a request can throw; the empty one has no
\* message.
ErrorMessages == {<<"404: ", EntityNotFound, ".">>, <<"quota exceeded">>, << >>}

\* VideoGenerator.tsx:71-74, the item made of a selected file.
ResultItem(file) == [file |-> file, videoUrl |-> "", error |-> << >>, errorOf |-> ""]

\* handleFileChange up to its await (VideoGenerator.tsx:58-71).
videoHandleFileChange(V, selectedFiles) ==
    [V EXCEPT !.files = selectedFiles, !.error = "null",
              !.previews = @ \cup {selectedFiles},
              !.selections = @ + 1]

\* handleFileChange after its await (VideoGenerator.tsx:71-75).
videoHandleFileChangeResume(V, selectedFiles) ==
    [V EXCEPT !.results = [i \in DOMAIN selectedFiles |-> ResultItem(selectedFiles[i])],
              !.previews = @ \ {selectedFiles}]

\* The updater of VideoGenerator.tsx:130-134 applied to the current results;
\* the video URL is named after the file the video was generated from. With
\* no item at the index the updater throws while the component renders.
setVideoUrl(V, index, file) ==
    IF index \in DOMAIN V.results
    THEN [V EXCEPT !.results[index].videoUrl = file]
    ELSE [V EXCEPT !.crashed = TRUE]

\* The updater of VideoGenerator.tsx:142-146.
setItemError(V, index, errorMessage, file) ==
    IF index \in DOMAIN V.results
    THEN [V EXCEPT !.results[index].error = errorMessage,
                   !.results[index].errorOf = file]
    ELSE [V EXCEPT !.crashed = TRUE]

\* The end of the loop without the reset of loading.
videoLoopEndKeepsLoading(V) ==
    [V EXCEPT !.progressMessage = << >>, !.at = "idle"]

\* VideoGenerator.tsx:155-156, after the loop.
videoLoopEnd(V) ==
    [V EXCEPT !.loading = FALSE, !.progressMessage = << >>, !.at = "idle"]

\* VideoGenerator.tsx:97-99: the loop takes the item at index, if any, and
\* runs up to the first await of its body.
videoIterate(V, index) ==
    IF index \in DOMAIN V.items
    THEN [V EXCEPT !.index = index,
                   !.progressMessage = <<index, V.total>>,
                   !.polls = 0,
                   !.submitted = Append(@, V.items[index].file),
                   !.at = "generateVideos"]
    ELSE videoLoopEnd(V)

\* handleGenerate up to its first await (VideoGenerator.tsx:85-100).
videoHandleGenerateStart(V) ==
    [V EXCEPT !.loading = TRUE, !.error = "null", !.progressMessage = << >>,
              !.items = V.results, !.total = Len(V.files),
              !.submitted = << >>, !.runs = @ + 1]

videoHandleGenerate(V) ==
    IF Len(V.files) = 0
    THEN [V EXCEPT !.error = "Please upload at least one image."]
    ELSE videoIterate(videoHandleGenerateStart(V), 1)

\* VideoGenerator.tsx:128-134: the video of the current item was fetched.
videoItemDone(V) ==
    videoIterate(setVideoUrl(V, V.index, V.items[V.index].file), V.index + 1)

\* VideoGenerator.tsx:139-152: the catch block, for an error with this message.
videoItemStop(V) ==
    videoLoopEnd([V EXCEPT !.hasApiKey = FALSE,
                           !.error = "API Key not found or invalid."])

videoCatch(V, errorMessage) ==
    IF includes(errorMessage, EntityNotFound)
    THEN videoItemStop(setItemError(V, V.index, errorMessage, V.items[V.index].file))
    ELSE videoIterate(setItemError(V, V.index, errorMessage, V.items[V.index].file),
                      V.index + 1)

videoItemFailed(V, message) ==
    videoCatch(V, IF message = << >> THEN <<"An unknown error occurred.">> ELSE message)

\* What generateVideos or getVideosOperation answers: it throws, or it gives
\* an operation that is not done, done with a download link, or done
\* without one.
Answer(kind, message) == [kind |-> kind, message |-> message]
OperationOutcomes ==
    {Answer("throws", m) : m \in ErrorMessages}
        \cup {Answer("pending", << >>), Answer("link", << >>), Answer("nolink", << >>)}

\* VideoGenerator.tsx:100-137, from the answer of a request to the next await.
videoOperation(V, outcome) ==
    CASE outcome.kind = "throws" -> videoItemFailed(V, outcome.message)
      [] outcome.kind = "pending" ->
            [V EXCEPT !.at = "getVideosOperation", !.polls = @ + 1]
      [] outcome.kind = "nolink" ->
            videoItemFailed(V, <<"Video generation completed, but no download link was provided.">>)
      [] OTHER -> [V EXCEPT !.at = "fetch"]

\* What the fetch of the download link gives: it throws, it answers with a
\* status that is not ok, or it gives the video.
FetchOutcomes ==
    {Answer("throws", m) : m \in ErrorMessages}
        \cup {Answer("notOk", << >>), Answer("blob", << >>)}

\* VideoGenerator.tsx:124-134.
videoFetch(V, outcome) ==
    CASE outcome.kind = "throws" -> videoItemFailed(V, outcome.message)
      [] outcome.kind = "notOk" -> videoItemFailed(V, <<"Failed to fetch video: ">>)
      [] OTHER -> videoItemDone(V)

\* handleSelectKey (VideoGenerator.tsx:78-83) or checkApiKey (33-38).
SelectKey ==
    /\ ~video.hasApiKey
    /\ Become([State EXCEPT !.video = [video EXCEPT !.hasApiKey = TRUE]])

\* The file input (VideoGenerator.tsx:180), shown with a key and disabled
\* while loading.
FileChange ==
    /\ video.hasApiKey /\ ~video.loading
    /\ video.selections < MaxSelections
    /\ \E selectedFiles \in Selections :
        Become([State EXCEPT !.video = videoHandleFileChange(video, selectedFiles)])

\* The previews of a selection have been read.
PreviewsResolved ==
    \E selectedFiles \in video.previews :
        Become([State EXCEPT !.video = videoHandleFileChangeResume(video, selectedFiles)])

\* The Generate button (VideoGenerator.tsx:198), disabled while loading and
\* without files.
GenerateClick ==
    /\ video.hasApiKey /\ ~video.loading /\ Len(video.files) # 0
    /\ video.runs < MaxRuns
    /\ Become([State EXCEPT !.video = videoHandleGenerate(video)])

\* The request for the current item, or a poll of its operation, answers
\* with this outcome; an operation is done after MaxPolls polls at the latest.
Operation(outcome) ==
    /\ video.at \in {"generateVideos", "getVideosOperation"}
    /\ outcome.kind = "pending" => video.polls < MaxPolls
    /\ Become([State EXCEPT !.video = videoOperation(video, outcome)])

OperationAnswered == \E outcome \in OperationOutcomes : Operation(outcome)

Fetch(outcome) ==
    /\ video.at = "fetch"
    /\ Become([State EXCEPT !.video = videoFetch(video, outcome)])

Fetched == \E outcome \in FetchOutcomes : Fetch(outcome)

\* The video specification: the VideoGenerator component alone.
NextVideo ==
    \/ SelectKey
    \/ FileChange
    \/ PreviewsResolved
    \/ GenerateClick
    \/ OperationAnswered
    \/ Fetched

SpecVideo == Init /\ [][NextVideo]_vars

\* The same with every request of the batch answered in the end: the request
\* or poll of the current item, and the fetch of its video.
SpecVideoFair ==
    SpecVideo /\ WF_vars(OperationAnswered) /\ WF_vars(Fetched)

\* ======================================================== ImageGenerator
\* The component of components/ImageGenerator.tsx. Its state is the record
\* image: the React state and the handleGenerate call in progress (at, the
\* mode and prompts it took from its closure, the loop index, its local
\* allGeneratedUrls). A prompt is the sequence of its lines.
Lines == {"", " ", "x", "y"}

\* What the textarea can hold: up to MaxLines lines.
Scripts == UNION {[1 .. n -> Lines] : n \in 1 .. MaxLines}

\* String.prototype.trim on a line.
trim(line) == IF line = " " THEN "" ELSE line

\* ImageGenerator.tsx:73, !prompt.trim(): no line has anything but blanks.
isBlank(prompt) == \A i \in DOMAIN prompt : trim(prompt[i]) = ""

\* ImageGenerator.tsx:104, the filter of the lines.
nonBlank(p) == trim(p) # ""

\* ImageGenerator.tsx:42-44, the prompt each mode starts with.
defaultPrompt(newMode) ==
    IF newMode = "single" THEN <<"x">> ELSE <<"x", "y", "x">>

\* handleModeChange (ImageGenerator.tsx:37-46).
handleModeChange(I, newMode) ==
    [I EXCEPT !.mode = newMode, !.imageUrls = << >>, !.error = "null",
              !.prompt = defaultPrompt(newMode)]

\* ImageGenerator.tsx:144-147, the finally block.
imageFinally(I) ==
    [I EXCEPT !.loading = FALSE, !.progressMessage = << >>, !.at = "idle"]

\* ImageGenerator.tsx:112-116: the loop takes the prompt at index, if any,
\* and runs up to the await of its body.
imageIterate(I, index) ==
    IF index \in DOMAIN I.prompts
    THEN [I EXCEPT !.index = index,
                   !.progressMessage = <<index, Len(I.prompts)>>,
                   !.at = "generateImages"]
    ELSE imageFinally(I)

\* ImageGenerator.tsx:104-111, the start of the batch.
imageBatch(I) ==
    IF Len(SelectSeq(I.prompt, nonBlank)) = 0
    THEN imageFinally([I EXCEPT !.error = "Please enter at least one prompt in the script.",
                                !.loading = FALSE])
    ELSE imageIterate([I EXCEPT !.prompts = SelectSeq(I.prompt, nonBlank),
                                !.allGeneratedUrls = << >>], 1)

\* ImageGenerator.tsx:77-87, from setLoading to the first await.
imageHandleGenerateStart(I) ==
    [I EXCEPT !.loading = TRUE, !.error = "null", !.imageUrls = << >>,
              !.progressMessage = << >>, !.runMode = I.mode,
              !.prompts = << >>, !.answers = << >>, !.index = 0,
              !.allGeneratedUrls = << >>]

\* handleGenerate up to its first await (ImageGenerator.tsx:72-116).
imageHandleGenerate(I) ==
    IF isBlank(I.prompt)
    THEN [I EXCEPT !.error = "Please enter a prompt.", !.clicks = @ + 1]
    ELSE IF I.mode = "single"
    THEN [imageHandleGenerateStart(I) EXCEPT !.at = "generateImages", !.clicks = @ + 1]
    ELSE imageBatch([imageHandleGenerateStart(I) EXCEPT !.clicks = @ + 1])

\* What generateImages answers: an image, no image, or it throws.
ImageOutcomes == {"image", "none", "throws"}

\* The URL of the image generated for the prompt at index.
imageUrl(I) == <<I.index, I.prompts[I.index]>>

\* ImageGenerator.tsx:97-102 and 141-147: the answer in single mode.
imageSingle(I, outcome) ==
    CASE outcome = "image" -> imageFinally([I EXCEPT !.imageUrls = <<<<0, I.prompt>>>>])
      [] outcome = "none" ->
            imageFinally([I EXCEPT !.error = "Image generation failed. No images were returned."])
      [] OTHER -> imageFinally([I EXCEPT !.error = "An error occurred"])

\* ImageGenerator.tsx:126-138: the answer for the prompt at index in batch
\* mode.
imageBatchAnswer(I, outcome) ==
    CASE outcome = "image" ->
            imageIterate([I EXCEPT !.allGeneratedUrls = Append(@, imageUrl(I)),
                                   !.imageUrls = Append(I.allGeneratedUrls, imageUrl(I))],
                         I.index + 1)
      [] outcome = "none" -> imageIterate(I, I.index + 1)
      [] OTHER -> imageFinally([I EXCEPT !.error = "An error occurred on this prompt. Batch stopped."])

\* handleGenerate from the answer of generateImages on; the answer is noted
\* in answers.
imageHandleGenerateResume(I, outcome) ==
    IF I.runMode = "single"
    THEN imageSingle([I EXCEPT !.answers = Append(@, outcome)], outcome)
    ELSE imageBatchAnswer([I EXCEPT !.answers = Append(@, outcome)], outcome)

\* The textarea (ImageGenerator.tsx:177-185), disabled while loading.
SetPrompt ==
    /\ ~image.loading
    /\ \E script \in Scripts :
        /\ script # image.prompt
        /\ Become([State EXCEPT !.image = [image EXCEPT !.prompt = script]])

\* The mode buttons (ImageGenerator.tsx:168-173); nothing disables them.
ModeChange ==
    /\ image.modeChanges < MaxModeChanges
    /\ \E newMode \in {"single", "batch"} :
        Become([State EXCEPT !.image =
                   [handleModeChange(image, newMode) EXCEPT !.modeChanges = @ + 1]])

\* The Generate button (ImageGenerator.tsx:238-244), disabled while loading.
GenerateImagesClick ==
    /\ ~image.loading
    /\ image.clicks < MaxImageRuns
    /\ Become([State EXCEPT !.image = imageHandleGenerate(image)])

ImagesAnswered ==
    /\ image.at = "generateImages"
    /\ \E outcome \in ImageOutcomes :
        Become([State EXCEPT !.image = imageHandleGenerateResume(image, outcome)])

\* The image specification: the ImageGenerator component alone.
NextImage ==
    \/ SetPrompt
    \/ ModeChange
    \/ GenerateImagesClick
    \/ ImagesAnswered

SpecImage == Init /\ [][NextImage]_vars

\* ================================================================ claims

\* Nothing is pending: no getUserMedia, no transport that may still call back,
\* no decode.
Quiescent ==
    /\ \A k \in Ids : call[k] # "getUserMedia" /\ conn[k] \in {"none", "failed", "closed"}
    /\ handlers = {}

\* Call k is pending: from the click until the open callback, an error or a
\* failure.
Pending(k) == call[k] = "getUserMedia" \/ conn[k] = "connecting"

\* The open of call k failed: startSession threw, or the transport refused or
\* rejected the connect.
OpenFailed(k) == call[k] = "failed" \/ conn[k] \in {"refused", "failed"}

\* Every device object made for call k has been released exactly once, and the
\* session of its connection closed at most once.
ReleasedOnce(k) ==
    /\ released[k].session <= 1
    /\ stream[k] # "none" => released[k].track = 1
    /\ inCtx[k] # "none" => released[k].inCtx = 1
    /\ outCtx[k] # "none" => released[k].outCtx = 1
    /\ sampler[k].state # "none" => released[k].sampler = 1 /\ released[k].source = 1

\* C1: once the close event of a session's connection has been handled (so at
\* least one termination trigger has fired for it) and its connect promise has
\* resolved, each release of the teardown has been performed exactly once for
\* the objects of that session.
C1_TeardownExactlyOnce ==
    \A k \in Ids :
        (conn[k] = "closed" /\ promise[k] = "resolved") => ReleasedOnce(k)

\* C2: no buffer source is created by an onmessage call that was suspended at
\* its decode while stopSession ran.
C2_DecodeAfterCloseDiscarded ==
    \A i \in DOMAIN sources : ~sources[i].afterClose

\* Source i is heard during a non-empty interval of its context's clock.
Plays(i) == ~sources[i].onClosed /\ sources[i].playStart < sources[i].playEnd

\* C3: of two sources of one context, the one scheduled first has finished
\* playing when the other starts playing.
C3_NoOverlap ==
    \A i, j \in DOMAIN sources :
        (i < j /\ sources[i].ctx = sources[j].ctx /\ Plays(i) /\ Plays(j))
            => sources[i].playEnd <= sources[j].playStart

\* C4: once an interruption has been handled, no source built from a message
\* that arrived before it is started and neither stopped nor ended.
C4_InterruptionPreempts ==
    \A i \in DOMAIN sources :
        sources[i].msg < flushedMsg => sources[i].state # "started"

\* C5: when the open of the latest start request has failed and nothing is
\* pending any more, the controller is Idle and shows an error.
C5_OpenFailureReturnsToIdle ==
    (starts > 0 /\ OpenFailed(starts) /\ Quiescent)
        => (~isConnecting /\ ~isSessionActive /\ error # "null")

\* C6: when startSession has failed and the controller is back in Idle, no
\* microphone track of that call is running and none of its contexts is open.
C6_FailedStartReleasesResources ==
    \A k \in Ids :
        (call[k] = "failed" /\ ~isConnecting /\ ~isSessionActive)
            => (stream[k] # "live" /\ inCtx[k] # "running" /\ outCtx[k] # "running")

\* C7: at most one connection is open, and no frame is sent on a connection
\* that is closing or closed.
C7_SingleConnectionNeverReused ==
    /\ Cardinality({k \in Ids : conn[k] = "open"}) <= 1
    /\ \A i \in DOMAIN sends : sends[i].state \notin {"closing", "closed"}

\* A step of one of the three triggers that end a session.
Trigger == StopClick \/ OnClose \/ OnError

\* The state after a teardown, for the objects the refs held before it.
TornDown ==
    /\ streamRef' = 0 /\ (streamRef # 0 => stream'[streamRef] = "stopped")
    /\ scriptProcessorRef' = 0
    /\ (scriptProcessorRef # 0 => sampler'[scriptProcessorRef].state = "disconnected")
    /\ mediaStreamSourceRef' = 0
    /\ (mediaStreamSourceRef # 0 => micSource'[mediaStreamSourceRef] = "disconnected")
    /\ inCtx'[inputAudioContextRef] = "closed"
    /\ outCtx'[outputAudioContextRef] = "closed"
    /\ audioSourcesRef' = {} /\ nextStartTimeRef' = 0
    /\ \A i \in audioSourcesRef : sources'[i].state = "stopped"
    /\ sessionPromiseRef' = 0
    /\ ~isSessionActive' /\ ~isConnecting'

C9_NoSecondStartWhilePending ==
    Cardinality({k \in Ids : Pending(k)}) <= 1

\* C10: messages take effect in the order of their arrival.
C10_ArrivalOrder ==
    \A i, j \in DOMAIN effectLog : i < j => effectLog[i] <= effectLog[j]

\* ------------------------------------------------------------ transcript
\* The text of a transcription field, empty when the field is absent.
TextOf(t) == IF t = << >> THEN << >> ELSE t[1]

\* The two buffers as the turnComplete branch of message m reads them
\* (LiveChat.tsx:152-153) when m is handled in the current state.
FullInput(m) == currentInputTranscriptionRef \o TextOf(m.inputTranscription)
FullOutput(m) == currentOutputTranscriptionRef \o TextOf(m.outputTranscription)

\* A step in which the message callback handles the turn-complete of m: the
\* call of a message without audio, or the resumed call of a message whose
\* audio decoded.
TurnCompleteHandled(m) ==
    /\ m.turnComplete
    /\ \/ /\ m.audio = "none" \/ outputAudioContextRef = 0
          /\ \E k \in Ids : Deliver(k, m, MaxTranscriptMsgs)
       \/ /\ decodeAudioData(m).error = "none"
          /\ \E h \in handlers : h.msg = m /\ Settle(h)

UserEntry(m) == [speaker |-> "user", text |-> FullInput(m)]
ModelEntry(m) == [speaker |-> "model", text |-> FullOutput(m)]

BuffersCleared ==
    currentInputTranscriptionRef' = << >> /\ currentOutputTranscriptionRef' = << >>

EntryIfNonEmpty(text, entry) == IF text # << >> THEN <<entry>> ELSE << >>

\* The entry a buffer yields when only a buffer with more than white space
\* yields one.
EntryIfTrimmed(text, entry) == IF trimmed(text) THEN <<entry>> ELSE << >>

C13_BufferIsConcatenation ==
    [][\A m \in ServerMessages :
          m.turnComplete =>
              /\ \A k \in Ids :
                    ((m.audio = "none" \/ outputAudioContextRef = 0)
                        /\ Deliver(k, m, MaxTranscriptMsgs))
                    => /\ FullInput(m) = heard[k].input \o TextOf(m.inputTranscription)
                       /\ FullOutput(m) = heard[k].output \o TextOf(m.outputTranscription)
              /\ \A h \in handlers :
                    (h.msg = m /\ decodeAudioData(m).error = "none" /\ Settle(h))
                    => /\ FullInput(m) = h.heard.input
                       /\ FullOutput(m) = h.heard.output]_vars

\* ------------------------------------------------------- playback claims
\* The session and the playback state are what they were.
SessionUntouched ==
    UNCHANGED << isSessionActive, isConnecting, error, sessionPromiseRef,
                 inputAudioContextRef, outputAudioContextRef, scriptProcessorRef,
                 mediaStreamSourceRef, streamRef, stream, inCtx, outCtx, sampler,
                 micSource, conn, sources, audioSourcesRef, nextStartTimeRef >>

\* The frame of the suspended call h has been given to a new buffer source.
Scheduled(h) ==
    /\ Len(sources') = Len(sources) + 1
    /\ sources'[Len(sources')].msg = h.idx
    /\ sources'[Len(sources')].dur = decodeAudioData(h.msg).duration
    /\ \A i \in DOMAIN sources : sources'[i].msg = sources[i].msg

\* C14: a decode that fails drops its frame and nothing else (the session
\* stays as it is, no source is touched), and every decode that succeeds,
\* before or after a failure, has its frame scheduled.
C14_DecodeFailureDropsOneFrame ==
    [][\A h \in handlers :
          Settle(h) =>
              IF decodeAudioData(h.msg).error # "none"
              THEN SessionUntouched /\ handlers' = handlers \ {h}
              ELSE Scheduled(h)]_vars

\* The first frame failed to decode (it took no effect and is not pending),
\* the session is still Active and the frame that arrived after it has been
\* scheduled.
C14_Witness ==
    /\ isSessionActive
    /\ arrived = 2 /\ handlers = {} /\ effectLog = <<2>>
    /\ \E i \in DOMAIN sources : sources[i].msg = 2 /\ i \in audioSourcesRef

\* A step in which the message callback handles the interruption flag of a
\* message: the call of a message without audio, or the resumed call of a
\* message whose audio decoded.
InterruptionHandled ==
    \E m \in ServerMessages :
        /\ m.interrupted
        /\ \/ /\ m.audio = "none" \/ outputAudioContextRef = 0
              /\ \E k \in Ids : Deliver(k, m, MaxMsgs)
           \/ /\ decodeAudioData(m).error = "none"
              /\ \E h \in handlers : h.msg = m /\ Settle(h)

\* A step that flushes the playback: an interruption is handled or the
\* session is torn down.
FlushStep == InterruptionHandled \/ StopClick \/ OnClose \/ OnError \/ Unmount

\* C15: immediately after a flush the active set is empty and the cursor is 0,
\* and every source that was in the set has been stopped.
C15_FlushEmptiesAndResets ==
    [][FlushStep => /\ audioSourcesRef' = {}
                    /\ nextStartTimeRef' = 0
                    /\ \A i \in audioSourcesRef : sources'[i].state = "stopped"]_vars

\* An interruption was handled while two sources were scheduled: both are
\* stopped, the set is empty and the cursor is 0, the session still Active.
C15_Witness ==
    /\ isSessionActive /\ flushedMsg > 0
    /\ audioSourcesRef = {} /\ nextStartTimeRef = 0
    /\ Len(sources) = 2
    /\ \A i \in DOMAIN sources : sources[i].state = "stopped"

C17_ActiveSetExact ==
    audioSourcesRef = {i \in DOMAIN sources : sources[i].state = "started"}

\* One source has ended and left the set, another is started and in it.
C17_Witness ==
    \E i, j \in DOMAIN sources :
        /\ sources[i].state = "ended" /\ i \notin audioSourcesRef
        /\ sources[j].state = "started" /\ j \in audioSourcesRef

\* ------------------------------------------------------- outbound claims
\* C18: no frame is transmitted on a connection after stopSession has
\* released its session, whether its send was registered before or after.
C18_NoSendAfterStop ==
    \A i \in DOMAIN sends : ~sends[i].afterStop

\* C19: the sends of the chunks of one session are invoked in the order in
\* which its sampler captured them.
C19_SendsInCaptureOrder ==
    \A i, j \in DOMAIN sends :
        (i < j /\ sends[i].sampler = sends[j].sampler)
            => sends[i].frame < sends[j].frame

\* The 16-bit value v is the one nearest to the scaled sample
\* n / StepsPerUnit (either neighbour on a tie), saturated at the upper end of
\* the range.
NearestSaturated(n, v) ==
    IF n >= StepsPerUnit * (Int16Values \div 2 - 1)
    THEN v = Int16Values \div 2 - 1
    ELSE /\ 2 * (StepsPerUnit * v - n) <= StepsPerUnit
         /\ 2 * (n - StepsPerUnit * v) <= StepsPerUnit

\* C20: every sample of [-1, 1] is encoded as the nearest 16-bit integer to
\* the scaled sample, saturating: 1.0 is encoded as 32767.
C20_NearestSaturating ==
    \A i \in DOMAIN sends :
        \A p \in DOMAIN sends[i].inputData :
            NearestSaturated(sends[i].inputData[p], sends[i].media.data[p])

\* The sample, in steps of 1 / SampleDen, that the inbound decoding makes of
\* the 16-bit value v: v / 32768 (decodeAudioData of utils/audioUtils).
decodeSample(v) == v * StepsPerUnit

\* C21: decoding the encoded frame reconstructs every sample of [-1, 1]
\* within one quantization step (1 / 32768, that is StepsPerUnit steps) of
\* the original, the boundary values -1 and 1 included.
C21_RoundTripWithinOneStep ==
    \A i \in DOMAIN sends :
        \A p \in DOMAIN sends[i].inputData :
            /\ decodeSample(sends[i].media.data[p]) - sends[i].inputData[p] <= StepsPerUnit
            /\ sends[i].inputData[p] - decodeSample(sends[i].media.data[p]) <= StepsPerUnit

\* The scaling of a clamped sample with the factor chosen by its sign.
scaleBySign(c) ==
    IF c < 0 THEN Trunc(c * Scale, WaveDen) ELSE Trunc(c * PositiveScale, WaveDen)

\* C22: the wave encoder clamps each sample to [-1, 1] and scales it by sign:
\* a negative sample is multiplied by 32768, a non-negative one by 32767,
\* and the product is truncated to a 16-bit integer.
C22_ScaledBySign ==
    tts.audioUrl # << >> =>
        \A i \in DOMAIN tts.audioBuffer :
            tts.audioUrl[1][i] = ToInt16(scaleBySign(clamp(tts.audioBuffer[i])))

\* Every continuation of the component has run: no startSession call waits
\* for the microphone, no callback waits on a connect promise.
Settled == \A k \in Ids : call[k] # "getUserMedia" /\ promise[k] # "pending"

\* No microphone stream, audio context or connection of the component is
\* open.
NothingOpen ==
    \A k \in Ids :
        /\ stream[k] # "live"
        /\ inCtx[k] # "running"
        /\ outCtx[k] # "running"
        /\ conn[k] \notin {"connecting", "open"}

\* C23: once the component is unmounted and every continuation of its
\* handlers has run, no microphone stream, audio context or connection it
\* acquired is open, whenever the acquisition completed.
C23_UnmountReleasesAll == (~mounted /\ Settled) => NothingOpen

\* C24: while the component is mounted, isConnecting and isSessionActive are
\* not both true, and isSessionActive is true only while the connection ref
\* is set and the stream ref holds a live microphone stream.
C24_ActiveOnlyWithSession ==
    mounted =>
        /\ ~(isConnecting /\ isSessionActive)
        /\ isSessionActive =>
               /\ sessionPromiseRef # 0
               /\ streamRef # 0 /\ stream[streamRef] = "live"

\* C25: both accumulation buffers are empty when a session becomes active,
\* so that no partial text of an earlier session reaches an entry of a later
\* one.
C25_BuffersEmptyAtActivation ==
    [][OnOpen => /\ currentInputTranscriptionRef' = << >>
                 /\ currentOutputTranscriptionRef' = << >>]_vars

\* C26: when the decode of a message's audio fails, the other events of the
\* message still take effect: its interruption flag flushes playback, its
\* partial texts are appended to the buffers, its turn-complete finalizes
\* the turn.
C26_DecodeFailureKeepsOtherEvents ==
    [][\A h \in handlers :
          (decodeAudioData(h.msg).error # "none" /\ Settle(h)) =>
              /\ h.msg.interrupted => audioSourcesRef' = {} /\ nextStartTimeRef' = 0
              /\ h.msg.turnComplete => BuffersCleared
              /\ ~h.msg.turnComplete =>
                     /\ currentInputTranscriptionRef' =
                            currentInputTranscriptionRef \o TextOf(h.msg.inputTranscription)
                     /\ currentOutputTranscriptionRef' =
                            currentOutputTranscriptionRef \o TextOf(h.msg.outputTranscription)]_vars

\* The messages the catch block of the video batch can see.
CaughtMessages ==
    (ErrorMessages \ {<< >>})
        \cup {<<"An unknown error occurred.">>,
              <<"Video generation completed, but no download link was provided.">>,
              <<"Failed to fetch video: ">>}

\* The current item of the video batch fails with this message.
Failure(errorMessage) ==
    /\ video.at # "idle"
    /\ Become([State EXCEPT !.video = videoCatch(video, errorMessage)])

\* The error is recorded on the item of the image that failed and on no
\* other item.
RecordedOnItemOnly(errorMessage) ==
    /\ video.index \in DOMAIN video.results
    /\ DOMAIN video'.results = DOMAIN video.results
    /\ video'.results[video.index] =
           [video.results[video.index] EXCEPT !.error = errorMessage,
                                              !.errorOf = video.items[video.index].file]
    /\ video'.results[video.index].file = video.items[video.index].file
    /\ \A j \in DOMAIN video.results :
           j # video.index => video'.results[j] = video.results[j]

\* The loop goes on to the next image, if there is one.
GoesOn ==
    IF video.index + 1 \in DOMAIN video.items
    THEN /\ video'.at = "generateVideos"
         /\ video'.index = video.index + 1
         /\ video'.submitted = Append(video.submitted, video.items[video.index + 1].file)
    ELSE video'.at = "idle" /\ video'.submitted = video.submitted

\* The batch stops: the key is marked missing, the batch-level error is set
\* and no later image is submitted.
BatchStopped ==
    /\ ~video'.hasApiKey
    /\ video'.error = "API Key not found or invalid."
    /\ video'.at = "idle"
    /\ video'.submitted = video.submitted

\* C27: a failure on one image records the error on that item only and the
\* loop goes on to the next image, except when the message contains
\* "Requested entity was not found": then hasApiKey becomes false, the
\* batch-level error is set and no later image is submitted.
C27_PerItemErrorOrKeyStop ==
    [][\A errorMessage \in CaughtMessages :
          Failure(errorMessage) =>
              /\ RecordedOnItemOnly(errorMessage)
              /\ IF includes(errorMessage, EntityNotFound)
                 THEN BatchStopped
                 ELSE GoesOn]_vars

\* The items the batch iterates over are the files of the latest selection,
\* one per file and in the same order.
IteratesSelection ==
    /\ Len(video.items) = Len(video.files)
    /\ \A i \in DOMAIN video.items : video.items[i].file = video.files[i]

\* Every video URL and every error is on the item of the file it was
\* generated from, and no update found its item missing.
LandsOnItsFile ==
    /\ ~video.crashed
    /\ \A i \in DOMAIN video.results :
           /\ video.results[i].videoUrl # "" =>
                  video.results[i].videoUrl = video.results[i].file
           /\ video.results[i].errorOf # "" =>
                  video.results[i].errorOf = video.results[i].file

\* C28: whenever handleGenerate runs, the items it iterates over are the
\* files of the latest selection, one per file and in order, and every
\* result update lands on the item of the file it was generated from, also
\* when the previews of a selection resolve after the click.
C28_BatchIsCurrentSelection ==
    [][/\ GenerateClick => IteratesSelection'
       /\ LandsOnItsFile']_vars

\* C29: with every polled operation done or failed after finitely many
\* polls, a handleGenerate call of the video batch that is running comes to
\* its end, and whenever none is running (after a success, a per-item error
\* or the stop on a missing key) loading is false and the progress message
\* is empty.
C29_BatchTerminatesAndResets ==
    /\ (video.at # "idle") ~> (video.at = "idle")
    /\ [](video.at = "idle" => ~video.loading /\ video.progressMessage = << >>)

\* A batch of two images has ended: the first one got its video, the second
\* one stopped the batch on the missing key; loading and the progress
\* message are reset.
C29_Witness ==
    /\ video.runs > 0 /\ video.at = "idle"
    /\ Len(video.results) = 2 /\ Len(video.submitted) = 2
    /\ video.results[1].videoUrl # ""
    /\ includes(video.results[2].error, EntityNotFound)
    /\ ~video.hasApiKey
    /\ ~video.loading /\ video.progressMessage = << >>

\* The images, in prompt order, of the prompts among the first n that
\* returned an image.
RECURSIVE ImagesOf(_, _, _)
ImagesOf(prompts, answers, n) ==
    IF n = 0 THEN << >>
    ELSE IF answers[n] = "image"
    THEN Append(ImagesOf(prompts, answers, n - 1), <<n, prompts[n]>>)
    ELSE ImagesOf(prompts, answers, n - 1)

\* A handleGenerate call of the image generator ends in this step: one that
\* was waiting for an answer, or one that returns within the click.
ImageRunEnds ==
    /\ image'.at = "idle"
    /\ image.at # "idle" \/ image'.clicks # image.clicks

\* A batch ends in this step, on the answer for its last prompt or on a
\* request that throws.
ImageBatchEnds ==
    /\ image.at # "idle" /\ image'.at = "idle"
    /\ image.runMode = "batch"

\* The batch stopped at the first prompt whose request threw, and at no
\* prompt that returned no image.
StoppedAtFirstThrow ==
    /\ \A i \in DOMAIN image'.answers :
           image'.answers[i] = "throws" => i = Len(image'.answers)
    /\ (\A i \in DOMAIN image'.answers : image'.answers[i] # "throws")
           => Len(image'.answers) = Len(image.prompts)

\* C30: an image batch stops at the first prompt whose request throws and
\* at no prompt that returns no image; the images displayed when it ends
\* are, in prompt order, exactly those of the prompts before the throwing
\* one that returned an image; and loading is false and the progress
\* message empty after every run, the early returns included.
C30_BatchStopsAtFirstThrow ==
    [][/\ ImageRunEnds => ~image'.loading /\ image'.progressMessage = << >>
       /\ ImageBatchEnds =>
              /\ StoppedAtFirstThrow
              /\ image'.imageUrls =
                     ImagesOf(image.prompts, image'.answers, Len(image'.answers))]_vars

====
